---- MODULE Spec2Model ----
(***************************************************************************)
(* Model of src-tauri/src/commands.rs: the two Tauri commands              *)
(* run_python_script and validate_python_script, the interpreter resolver, *)
(* the script-path preflight and the execution engine                      *)
(* (execute_with_candidate) together with the child process, its two       *)
(* pipes and the two drain tasks.                                          *)
(*                                                                         *)
(* Strings are sequences of one-character strings; a byte is a number.     *)
(***************************************************************************)
EXTENDS Integers, Sequences, FiniteSets, TLC

\* Option<T>: None is the empty sequence, Some(x) the sequence holding x.
None == <<>>
Some(x) == <<x>>
IsSome(o) == o /= <<>>
Unwrap(o) == o[1]
\* Option::unwrap_or
UnwrapOr(o, d) == IF o = None THEN d ELSE o[1]

\* Result<T, E>
Ok(v) == <<"Ok", v>>
Err(e) == <<"Err", e>>
IsOk(r) == r[1] = "Ok"
IsErr(r) == r[1] = "Err"

(***************************************************************************)
(* Bounds of the model.                                                    *)
(***************************************************************************)
\* capacity, in bytes, of each of the child's output pipes
PipeCap == 1
\* the child writes at most this many bytes in all (more than one pipe holds)
MaxWrites == PipeCap + 1
\* longest script path enumerated by the preflight specification
MaxPathLen == 4
\* longest interpreter override enumerated by the resolver specification
MaxPyLen == 3

(***************************************************************************)
(* Strings.                                                                *)
(***************************************************************************)
IsWhite(c) == c = " "

RECURSIVE TrimStart(_)
TrimStart(s) ==
    IF s /= <<>> /\ IsWhite(Head(s)) THEN TrimStart(Tail(s)) ELSE s

RECURSIVE TrimEnd(_)
TrimEnd(s) ==
    IF s /= <<>> /\ IsWhite(s[Len(s)]) THEN TrimEnd(SubSeq(s, 1, Len(s) - 1)) ELSE s

\* str::trim
Trim(s) == TrimEnd(TrimStart(s))

\* the position of the last c in s, 0 when there is none
RECURSIVE LastIndexOf(_, _)
LastIndexOf(s, c) ==
    IF s = <<>> THEN 0
    ELSE IF s[Len(s)] = c THEN Len(s)
    ELSE LastIndexOf(SubSeq(s, 1, Len(s) - 1), c)

\* Path::file_name: the last component of the path when it is a normal one.
\* Going backwards, empty segments (repeated or trailing separators) and "."
\* segments that are not the first are skipped; a leading ".", a ".." or
\* running out of segments (the root, the empty path) gives None.
RECURSIVE FileName(_)
FileName(p) ==
    IF p = <<>> THEN None
    ELSE LET k == LastIndexOf(p, "/")
             seg == SubSeq(p, k + 1, Len(p))
             rest == SubSeq(p, 1, k - 1)
         IN  IF seg = <<>> THEN (IF k = 0 THEN None ELSE FileName(rest))
             ELSE IF seg = <<".">> THEN (IF k = 0 THEN None ELSE FileName(rest))
             ELSE IF seg = <<".", ".">> THEN None
             ELSE Some(seg)

\* Path::extension: what follows the last dot of the file name; None when
\* there is no file name, no dot, or the only dot is the first character.
Extension(p) ==
    LET f == FileName(p) IN
    IF f = None THEN None
    ELSE LET n == Unwrap(f)
             d == LastIndexOf(n, ".")
         IN  IF d = 0 \/ d = 1 THEN None
             ELSE Some(SubSeq(n, d + 1, Len(n)))

(***************************************************************************)
(* The interpreter resolver.                                               *)
(***************************************************************************)
Python3Name == <<"p", "y", "t", "h", "o", "n", "3">>
PythonName == <<"p", "y", "t", "h", "o", "n">>
PyName == <<"p", "y">>
PyDisplayName == <<"p", "y", " ", "-", "3">>

\* struct PythonCandidate
PythonCandidate(program, pre_args, display_name) ==
    [program |-> program, pre_args |-> pre_args, display_name |-> display_name]

\* the cfg(target_os = "windows") list
WindowsCandidates ==
    << PythonCandidate(PythonName, <<>>, PythonName),
       PythonCandidate(PyName, << <<"-", "3">> >>, PyDisplayName) >>

\* the cfg(not(target_os = "windows")) list
OtherCandidates ==
    << PythonCandidate(Python3Name, <<>>, Python3Name),
       PythonCandidate(PythonName, <<>>, PythonName) >>

\* fn python_candidates, as built for the target os
\* fn python_candidates taking the override as it came, untrimmed
python_candidates_untrimmed(os, python_path) ==
    IF IsSome(python_path) /\ Trim(Unwrap(python_path)) /= <<>>
    THEN << PythonCandidate(Unwrap(python_path), <<>>, Unwrap(python_path)) >>
    ELSE IF os = "windows" THEN WindowsCandidates ELSE OtherCandidates

\* fn python_candidates, as built for the target os
python_candidates(os, python_path) ==
    IF IsSome(python_path) /\ Trim(Unwrap(python_path)) /= <<>>
    THEN << PythonCandidate(Trim(Unwrap(python_path)), <<>>, Trim(Unwrap(python_path))) >>
    ELSE IF os = "windows" THEN WindowsCandidates ELSE OtherCandidates

(***************************************************************************)
(* The script-path preflight.  What the file system holds at the path is   *)
(* kind: "absent" (nothing the process can stat), "file", "dir", "other"   *)
(* (a fifo, a socket, a device).                                           *)
(***************************************************************************)
FsKinds == {"absent", "file", "dir", "other"}

\* Path::exists and Path::is_file
PathExists(kind) == kind /= "absent"
PathIsFile(kind) == kind = "file"

\* a message: the fixed text, the value formatted into it, the io error shown
Msg(text, arg, detail) == <<text, arg, detail>>

EmptyPath == Msg("script_path is required", <<>>, None)
NotFound(p) == Msg("script file not found: ", p, None)
NotAFile(p) == Msg("script path is not a file: ", p, None)
WrongExtension == Msg("script must be a .py file", <<>>, None)

\* fn validate_script_path with the extension tested before the file system
validate_script_path_ext_first(script_path, kind) ==
    IF Trim(script_path) = <<>> THEN Err(EmptyPath)
    ELSE IF Extension(script_path) /= Some(<<"p", "y">>) THEN Err(WrongExtension)
    ELSE IF ~PathExists(kind) THEN Err(NotFound(script_path))
    ELSE IF ~PathIsFile(kind) THEN Err(NotAFile(script_path))
    ELSE Ok(<<>>)

\* fn validate_script_path
validate_script_path(script_path, kind) ==
    IF Trim(script_path) = <<>> THEN Err(EmptyPath)
    ELSE IF ~PathExists(kind) THEN Err(NotFound(script_path))
    ELSE IF ~PathIsFile(kind) THEN Err(NotAFile(script_path))
    ELSE IF Extension(script_path) /= Some(<<"p", "y">>) THEN Err(WrongExtension)
    ELSE Ok(<<>>)

(***************************************************************************)
(* The timeout of run.                                                     *)
(***************************************************************************)
DefaultTimeoutMs == 10000
MinTimeoutMs == 1000
MaxTimeoutMs == 120000

\* Ord::clamp
Clamp(v, lo, hi) == IF v < lo THEN lo ELSE IF v > hi THEN hi ELSE v

\* the timeout with the upper limit left out
effective_timeout_no_cap(timeout_ms) ==
    LET v == UnwrapOr(timeout_ms, DefaultTimeoutMs) IN
    IF v < MinTimeoutMs THEN MinTimeoutMs ELSE v

\* request.timeout_ms.unwrap_or(10_000).clamp(1_000, 120_000)
effective_timeout(timeout_ms) ==
    Clamp(UnwrapOr(timeout_ms, DefaultTimeoutMs), MinTimeoutMs, MaxTimeoutMs)

(***************************************************************************)
(* The host and the child process.                                         *)
(***************************************************************************)
\* what spawning a program does on the host
HostKinds == {"ok", "absent", "denied"}
\* and a program that can be spawned but ends its --version query without success
ProbeHostKinds == HostKinds \cup {"noversion"}
\* whether spawning the program succeeds
Spawns(h) == h \in {"ok", "noversion"}
\* the io::ErrorKind of a failed spawn
SpawnErrorKind(h) == IF h = "absent" THEN "NotFound" ELSE "PermissionDenied"
\* the io::ErrorKind of a failed wait or read
IoKinds == {"NotFound", "Other"}

Streams == {"out", "err"}
\* a byte the script writes: an ASCII letter or 0xFF, which no UTF-8 text holds
Bytes == {65, 255}

\* std::process::ExitStatus
ExitStatus(code, signal) == [code |-> code, signal |-> signal]
\* ExitStatus::success and ExitStatus::code
Success(st) == st.code = Some(0) /\ st.signal = None
Code(st) == st.code

\* the ways the script ends by itself; a signal only where there are signals
OwnExits(os) ==
    {ExitStatus(Some(0), None), ExitStatus(Some(1), None)}
        \cup (IF os = "windows" THEN {} ELSE {ExitStatus(None, Some(11))})

\* the status of a child ended by Child::kill: SIGKILL, or TerminateProcess(_, 1)
KilledStatus(os) ==
    IF os = "windows" THEN ExitStatus(Some(1), None) ELSE ExitStatus(None, Some(9))

\* String::from_utf8_lossy on the bytes of the model: an ASCII byte is its
\* character, 0xFF becomes U+FFFD
Lossy(bytes) == [i \in 1..Len(bytes) |-> IF bytes[i] < 128 THEN bytes[i] ELSE 65533]

\* struct RunPythonScriptResponse (duration_ms, a wall-clock reading, left out)
Response(ok, stdout, stderr, exit_code, timed_out_) ==
    [ok |-> ok, stdout |-> stdout, stderr |-> stderr,
     exit_code |-> exit_code, timed_out |-> timed_out_]

\* struct RunPythonScriptRequest (args, handed to the child unread, left out)
Request(script_path, python_path, timeout_ms) ==
    [script_path |-> script_path, python_path |-> python_path, timeout_ms |-> timeout_ms]

VARIABLES
    target_os,      \* the os the crate is built for
    request,        \* the RunPythonScriptRequest
    fs_kind,        \* what the file system holds at request.script_path
    host,           \* program -> what spawning it does
    pc,             \* where run_python_script stands
    timeout,        \* run_python_script: timeout_ms
    candidates,     \* run_python_script: candidates
    idx,            \* run_python_script: position of the for loop
    last_error,     \* run_python_script: last_error
    result,         \* what run_python_script returned, None while it runs
    child,          \* "none", "running", "exited" (not yet waited for), "reaped"
    child_status,   \* the ExitStatus of an exited child
    blocked,        \* the write the child is blocked in, None when in none
    nwrites,        \* bytes the script has written or is writing
    pipe,           \* stream -> bytes in the pipe
    buf,            \* stream -> buffer of the drain task
    drain,          \* stream -> "idle", "reading", "ok" or the kind of its io error
    timed_out,      \* execute_with_candidate: timed_out
    status,         \* execute_with_candidate: status, None until known
    wrote,          \* history: stream -> bytes the child put into the pipe
    ending,         \* history: how the child ended: "none" while it runs, "before" or
                    \* "after" the timeout elapsed when by itself, "killed"
    attempts,       \* history: one record per candidate tried
    heirs,          \* whether a process the script started holds the pipes open
    stdin_read,     \* history: what the script got from its standard input: "none",
                    \* "eof" or "data"
    vpc,            \* where validate_python_script stands
    vidx,           \* validate_python_script: position of the for loop
    vresult,        \* what validate_python_script returned, None while it runs
    probes          \* history: one record per candidate probed

reqVars == <<target_os, request, fs_kind, host>>
validateVars == <<vpc, vidx, vresult, probes>>
\* what run_python_script and execute_with_candidate never touch
otherVars == <<reqVars, validateVars, heirs, stdin_read>>
runVars == <<pc, timeout, candidates, idx, last_error, result>>
engineVars == <<child, child_status, blocked, nwrites, pipe, buf, drain, timed_out, status,
                wrote, ending>>
vars == <<otherVars, runVars, engineVars, attempts>>

NoBytes == [s \in Streams |-> <<>>]

\* the engine before a spawn
EngineIdle ==
    /\ child = "none"
    /\ child_status = None
    /\ blocked = None
    /\ nwrites = 0
    /\ pipe = NoBytes
    /\ buf = NoBytes
    /\ drain = [s \in Streams |-> "idle"]
    /\ timed_out = FALSE
    /\ status = None
    /\ wrote = NoBytes
    /\ ending = "none"

(***************************************************************************)
(* Inputs.                                                                 *)
(***************************************************************************)
TargetOs == {"windows", "other"}

\* the strings over alphabet of length at most n
RECURSIVE StringsUpTo(_, _)
StringsUpTo(alphabet, n) ==
    IF n = 0 THEN {<<>>}
    ELSE LET shorter == StringsUpTo(alphabet, n - 1) IN
         shorter \cup {Append(t, c) : t \in shorter, c \in alphabet}

PathAlphabet == {" ", "/", ".", "p", "y", "P"}
AllScriptPaths == StringsUpTo(PathAlphabet, MaxPathLen)

ScriptPy == <<"p", ".", "p", "y">>
ScriptPaths == {<<" ">>, <<"p", ".", "p">>, ScriptPy}
CustomPython == Some(<<" ", "x", " ">>)
PythonPaths == {None, CustomPython}
TimeoutRequests ==
    {None, Some(0), Some(999), Some(1000), Some(5000), Some(120000), Some(120001),
     Some(999999)}

ProgramsOf(cands) == {cands[i].program : i \in 1..Len(cands)}

\* the state after the request arrived, drawn from the given input sets
InitWith(oss, paths, kinds, pythons, timeouts, hosts) ==
    /\ target_os \in oss
    /\ request \in {Request(p, y, t) : p \in paths, y \in pythons, t \in timeouts}
    /\ fs_kind \in kinds
    /\ host \in [ProgramsOf(python_candidates(target_os, request.python_path)) -> hosts]
    /\ pc = "start"
    /\ timeout = None
    /\ candidates = <<>>
    /\ idx = 0
    /\ last_error = None
    /\ result = None
    /\ EngineIdle
    /\ attempts = <<>>
    /\ heirs = FALSE
    /\ stdin_read = "none"
    /\ vpc = "start"
    /\ vidx = 0
    /\ vresult = None
    /\ probes = <<>>

Init == InitWith(TargetOs, ScriptPaths, FsKinds, PythonPaths, {None}, HostKinds)

\* the inputs of the preflight: every short path, whatever the file system holds
InitPaths == InitWith({"other"}, AllScriptPaths, FsKinds, {CustomPython}, {None}, {"absent"})

\* the inputs of the resolver: no override and every short one, on hosts
\* where no program can be spawned
PyAlphabet == {" ", "x", "/"}
AllPythonPaths == {None} \cup {Some(y) : y \in StringsUpTo(PyAlphabet, MaxPyLen)}
InitResolve ==
    InitWith(TargetOs, {ScriptPy}, {"file"}, AllPythonPaths, {None}, {"absent", "denied"})

\* the inputs of the timeout: every request of a timeout, one interpreter
InitTimeout ==
    InitWith({"other"}, {ScriptPy}, {"file"}, {CustomPython}, TimeoutRequests, HostKinds)

(***************************************************************************)
(* run_python_script.                                                      *)
(***************************************************************************)
\* run_python_script up to the for loop, the result of the preflight unread
RunStartUnchecked ==
    /\ pc = "start"
    /\ timeout' = Some(effective_timeout(request.timeout_ms))
    /\ candidates' = python_candidates(target_os, request.python_path)
    /\ last_error' = None
    /\ idx' = 1
    /\ pc' = "spawn"
    /\ UNCHANGED result
    /\ UNCHANGED <<otherVars, engineVars, attempts>>

\* run_python_script up to the for loop
RunStart ==
    /\ pc = "start"
    /\ LET checked == validate_script_path(request.script_path, fs_kind) IN
       IF IsErr(checked)
       THEN /\ result' = Some(Err(checked[2]))
            /\ pc' = "done"
            /\ UNCHANGED <<timeout, candidates, idx, last_error>>
       ELSE /\ timeout' = Some(effective_timeout(request.timeout_ms))
            /\ candidates' = python_candidates(target_os, request.python_path)
            /\ last_error' = None
            /\ idx' = 1
            /\ pc' = "spawn"
            /\ UNCHANGED result
    /\ UNCHANGED <<otherVars, engineVars, attempts>>

InterpreterNotFound(c) == Msg("python interpreter not found: ", c.display_name, None)
FailedToExecute(c, kind) == Msg("failed to execute script with ", c.display_name, Some(kind))
NoInterpreter == Msg("failed to find available python interpreter", <<>>, None)

\* the Err arm of the loop, going on to the next candidate whatever the kind
RunOnErrAlwaysContinue(kind) ==
    /\ last_error' = Some(InterpreterNotFound(candidates[idx]))
    /\ idx' = idx + 1
    /\ pc' = "spawn"
    /\ UNCHANGED <<timeout, candidates, result>>

\* the Err arm of the loop, keeping the first diagnostic instead of the last
RunOnErrKeepFirst(kind) ==
    IF kind = "NotFound"
    THEN /\ last_error' = IF last_error = None
                          THEN Some(InterpreterNotFound(candidates[idx]))
                          ELSE last_error
         /\ idx' = idx + 1
         /\ pc' = "spawn"
         /\ UNCHANGED <<timeout, candidates, result>>
    ELSE /\ result' = Some(Err(FailedToExecute(candidates[idx], kind)))
         /\ pc' = "done"
         /\ UNCHANGED <<timeout, candidates, idx, last_error>>

\* the Err arm of the loop of run_python_script
RunOnErr(kind) ==
    IF kind = "NotFound"
    THEN /\ last_error' = Some(InterpreterNotFound(candidates[idx]))
         /\ idx' = idx + 1
         /\ pc' = "spawn"
         /\ UNCHANGED <<timeout, candidates, result>>
    ELSE /\ result' = Some(Err(FailedToExecute(candidates[idx], kind)))
         /\ pc' = "done"
         /\ UNCHANGED <<timeout, candidates, idx, last_error>>

\* the Ok arm of the loop without its return: the loop goes on
RunOnOkContinue(response) ==
    /\ idx' = idx + 1
    /\ pc' = "spawn"
    /\ UNCHANGED <<timeout, candidates, last_error, result>>

\* the Ok arm of the loop of run_python_script
RunOnOk(response) ==
    /\ result' = Some(Ok(response))
    /\ pc' = "done"
    /\ UNCHANGED <<timeout, candidates, idx, last_error>>

\* the end of the loop of run_python_script: no candidate is left
RunExhausted ==
    /\ pc = "spawn"
    /\ idx > Len(candidates)
    /\ result' = Some(Err(UnwrapOr(last_error, NoInterpreter)))
    /\ pc' = "done"
    /\ UNCHANGED <<timeout, candidates, idx, last_error>>
    /\ UNCHANGED <<otherVars, engineVars, attempts>>

(***************************************************************************)
(* execute_with_candidate, the child and the drain tasks.                  *)
(***************************************************************************)
Attempt(i, spawn, end) == [index |-> i, spawn |-> spawn, end |-> end]

SetEnd(as, end) == [as EXCEPT ![Len(as)].end = end]

\* the engine's variables of a call that returned an error are dropped
EngineDropped ==
    /\ child' = "none"
    /\ child_status' = None
    /\ blocked' = None
    /\ nwrites' = 0
    /\ pipe' = NoBytes
    /\ buf' = NoBytes
    /\ drain' = [s \in Streams |-> "idle"]
    /\ timed_out' = FALSE
    /\ status' = None
    /\ wrote' = NoBytes
    /\ ending' = "none"

\* execute_with_candidate returns Err(error) after its spawn: the ? of a wait
\* or of a drain's result
EngineErr(kind) ==
    /\ attempts' = SetEnd(attempts, kind)
    /\ EngineDropped
    /\ RunOnErr(kind)
    /\ heirs' = FALSE
    /\ UNCHANGED <<reqVars, validateVars, stdin_read>>

\* execute_with_candidate up to its first await: the spawn and the two
\* tokio::spawn of the drains
Spawn ==
    /\ pc = "spawn"
    /\ idx <= Len(candidates)
    /\ LET h == host[candidates[idx].program] IN
       IF Spawns(h)
       THEN /\ child' = "running"
            /\ drain' = [s \in Streams |-> "reading"]
            /\ attempts' = Append(attempts, Attempt(idx, "ok", "running"))
            /\ pc' = "wait"
            /\ UNCHANGED <<child_status, blocked, nwrites, pipe, buf, timed_out, status,
                           wrote, ending>>
            /\ UNCHANGED <<timeout, candidates, idx, last_error, result>>
       ELSE /\ attempts' = Append(attempts, Attempt(idx, SpawnErrorKind(h), "none"))
            /\ RunOnErr(SpawnErrorKind(h))
            /\ UNCHANGED engineVars
    /\ UNCHANGED otherVars

\* whether the pipe of stream s still has its reader
HasReader(s) == drain[s] \in {"reading", "ok"}

\* the script writes byte b to stream s: into the pipe when it has room,
\* nowhere when the reader is gone, and it blocks when the pipe is full
ChildWrite(s, b) ==
    /\ child = "running"
    /\ blocked = None
    /\ nwrites < MaxWrites
    /\ nwrites' = nwrites + 1
    /\ IF ~HasReader(s)
       THEN UNCHANGED <<pipe, wrote, blocked>>
       ELSE IF Len(pipe[s]) < PipeCap
       THEN /\ pipe' = [pipe EXCEPT ![s] = Append(@, b)]
            /\ wrote' = [wrote EXCEPT ![s] = Append(@, b)]
            /\ UNCHANGED blocked
       ELSE /\ blocked' = Some(<<s, b>>)
            /\ UNCHANGED <<pipe, wrote>>
    /\ UNCHANGED <<child, child_status, buf, drain, timed_out, status, ending>>
    /\ UNCHANGED <<otherVars, runVars, attempts>>

\* a blocked write goes on: the pipe has room again, or lost its reader
ChildUnblock ==
    /\ child = "running"
    /\ blocked /= None
    /\ Unwrap(blocked)[1] \in Streams
    /\ LET s == Unwrap(blocked)[1]
           b == Unwrap(blocked)[2]
       IN  \/ /\ HasReader(s)
              /\ Len(pipe[s]) < PipeCap
              /\ pipe' = [pipe EXCEPT ![s] = Append(@, b)]
              /\ wrote' = [wrote EXCEPT ![s] = Append(@, b)]
           \/ /\ ~HasReader(s)
              /\ UNCHANGED <<pipe, wrote>>
    /\ blocked' = None
    /\ UNCHANGED <<child, child_status, nwrites, buf, drain, timed_out, status, ending>>
    /\ UNCHANGED <<otherVars, runVars, attempts>>

\* the script ends by itself; its ends of the pipes close
ChildExit(st) ==
    /\ child = "running"
    /\ blocked = None
    /\ child' = "exited"
    /\ child_status' = Some(st)
    /\ ending' = IF timed_out THEN "after" ELSE "before"
    /\ UNCHANGED <<blocked, nwrites, pipe, buf, drain, timed_out, status, wrote>>
    /\ UNCHANGED <<otherVars, runVars, attempts>>

\* the standard input of the child: the Command is given stdout and stderr and
\* no stdin, and spawn() then lets the child inherit the one of the host
ChildStdin == "inherit"

\* what a read of the script on its standard input can meet in the standard
\* input of the host application: its end, data, or nothing yet
HostStdin == {"eof", "data", "wait"}

\* the script reads its standard input
ChildReadStdin ==
    /\ child = "running"
    /\ blocked = None
    /\ stdin_read = "none"
    /\ \E met \in IF ChildStdin = "inherit" THEN HostStdin ELSE {"eof"} :
          IF met = "wait"
          THEN /\ blocked' = Some(<<"in", 0>>)
               /\ UNCHANGED stdin_read
          ELSE /\ stdin_read' = met
               /\ UNCHANGED blocked
    /\ UNCHANGED <<child, child_status, nwrites, pipe, buf, drain, timed_out, status, wrote,
                   ending>>
    /\ UNCHANGED <<reqVars, validateVars, heirs, runVars, attempts>>

\* the standard input of the host application gets data or its end while the
\* script waits for it
StdinArrives ==
    /\ child = "running"
    /\ blocked = Some(<<"in", 0>>)
    /\ blocked' = None
    /\ \E met \in {"eof", "data"} : stdin_read' = met
    /\ UNCHANGED <<child, child_status, nwrites, pipe, buf, drain, timed_out, status, wrote,
                   ending>>
    /\ UNCHANGED <<reqVars, validateVars, heirs, runVars, attempts>>

\* the script starts a process of its own, which inherits the write ends of
\* both pipes (stdout and stderr are inherited by default) and is not the
\* child that kill() ends
ChildFork ==
    /\ child = "running"
    /\ blocked = None
    /\ ~heirs
    /\ heirs' = TRUE
    /\ UNCHANGED <<reqVars, validateVars, stdin_read, runVars, engineVars, attempts>>

\* the process the script started ends; its ends of the pipes close
HeirExit ==
    /\ heirs
    /\ heirs' = FALSE
    /\ UNCHANGED <<reqVars, validateVars, stdin_read, runVars, engineVars, attempts>>

\* the drains one after the other: stderr is read once stdout is at its end
DrainActiveInTurn(s) ==
    /\ drain[s] = "reading"
    /\ s = "err" => drain["out"] /= "reading"

\* a drain task runs as soon as it is spawned
DrainActive(s) == drain[s] = "reading"

\* read_to_end: one read takes some of the bytes in the pipe
DrainRead(s) ==
    /\ DrainActive(s)
    /\ pipe[s] /= <<>>
    /\ \E k \in 1..Len(pipe[s]) :
          /\ buf' = [buf EXCEPT ![s] = @ \o SubSeq(pipe[s], 1, k)]
          /\ pipe' = [pipe EXCEPT ![s] = SubSeq(@, k + 1, Len(@))]
    /\ UNCHANGED <<child, child_status, blocked, nwrites, drain, timed_out, status, wrote,
                   ending>>
    /\ UNCHANGED <<otherVars, runVars, attempts>>

\* a drain that stops when the child is gone, whatever is left in the pipe
DrainEofAtExit(s) ==
    /\ DrainActive(s)
    /\ child \in {"exited", "reaped"}
    /\ drain' = [drain EXCEPT ![s] = "ok"]
    /\ UNCHANGED <<child, child_status, blocked, nwrites, pipe, buf, timed_out, status,
                   wrote, ending>>
    /\ UNCHANGED <<otherVars, runVars, attempts>>

\* read_to_end: the pipe is empty and has no writer left (the child is gone and
\* no process it started holds the pipe), the task ends Ok(buffer)
DrainEof(s) ==
    /\ DrainActive(s)
    /\ pipe[s] = <<>>
    /\ child \in {"exited", "reaped"}
    /\ ~heirs
    /\ drain' = [drain EXCEPT ![s] = "ok"]
    /\ UNCHANGED <<child, child_status, blocked, nwrites, pipe, buf, timed_out, status,
                   wrote, ending>>
    /\ UNCHANGED <<otherVars, runVars, attempts>>

\* read_to_end: a read fails, the task ends Err and drops its end of the pipe
DrainFail(s, kind) ==
    /\ DrainActive(s)
    /\ drain' = [drain EXCEPT ![s] = kind]
    /\ pipe' = [pipe EXCEPT ![s] = <<>>]
    /\ UNCHANGED <<child, child_status, blocked, nwrites, buf, timed_out, status, wrote,
                   ending>>
    /\ UNCHANGED <<otherVars, runVars, attempts>>

\* a timeout that looks at the timer before the wait
TimerMayWinAlways == child \in {"running", "exited"}

\* timeout(timeout, child.wait()) polls the wait first: the timer wins only
\* while the child has not exited
TimerMayWin == child = "running"

\* timeout(timeout, child.wait()) is Ok(Ok(status)): the child has exited
WaitDone ==
    /\ pc = "wait"
    /\ child = "exited"
    /\ status' = child_status
    /\ child' = "reaped"
    /\ pc' = "join_stdout"
    /\ UNCHANGED <<timeout, candidates, idx, last_error, result>>
    /\ UNCHANGED <<child_status, blocked, nwrites, pipe, buf, drain, timed_out, wrote, ending>>
    /\ UNCHANGED <<otherVars, attempts>>

\* timeout(timeout, child.wait()) is Ok(Err(error)): status_result? returns
WaitFail(kind) ==
    /\ pc = "wait"
    /\ EngineErr(kind)

\* timeout(timeout, child.wait()) is Err(Elapsed)
TimeoutElapsed ==
    /\ pc = "wait"
    /\ TimerMayWin
    /\ timed_out' = TRUE
    /\ pc' = "kill"
    /\ UNCHANGED <<timeout, candidates, idx, last_error, result>>
    /\ UNCHANGED <<child, child_status, blocked, nwrites, pipe, buf, drain, status, wrote,
                   ending>>
    /\ UNCHANGED <<otherVars, attempts>>

\* let _ = child.kill().await: a child still running is ended, its blocked
\* write with it; a child that has exited meanwhile is left as it is.  The wait
\* inside kill and its ignored error are part of the wait that follows (Reap,
\* ReapFail).
Kill ==
    /\ pc = "kill"
    /\ IF child = "running"
       THEN /\ child' = "exited"
            /\ child_status' = Some(KilledStatus(target_os))
            /\ blocked' = None
            /\ ending' = "killed"
       ELSE UNCHANGED <<child, child_status, blocked, ending>>
    /\ pc' = "reap"
    /\ UNCHANGED <<timeout, candidates, idx, last_error, result>>
    /\ UNCHANGED <<nwrites, pipe, buf, drain, timed_out, status, wrote>>
    /\ UNCHANGED <<otherVars, attempts>>

\* child.wait().await after the kill is Ok(status)
Reap ==
    /\ pc = "reap"
    /\ child = "exited"
    /\ status' = child_status
    /\ child' = "reaped"
    /\ pc' = "join_stdout"
    /\ UNCHANGED <<timeout, candidates, idx, last_error, result>>
    /\ UNCHANGED <<child_status, blocked, nwrites, pipe, buf, drain, timed_out, wrote, ending>>
    /\ UNCHANGED <<otherVars, attempts>>

\* child.wait().await after the kill is Err(error): ? returns
ReapFail(kind) ==
    /\ pc = "reap"
    /\ EngineErr(kind)

\* stdout_handle.await ... ?: the stdout drain has ended.  (A JoinError, the
\* unwrap_or_else arm, needs a drain task that panicked or was cancelled; the
\* drain tasks of the model do neither.)
JoinStdout ==
    /\ pc = "join_stdout"
    /\ drain["out"] /= "reading"
    /\ IF drain["out"] = "ok"
       THEN /\ pc' = "join_stderr"
            /\ UNCHANGED <<timeout, candidates, idx, last_error, result>>
            /\ UNCHANGED <<engineVars, otherVars, attempts>>
       ELSE EngineErr(drain["out"])

\* the response with ok taken from the exit status alone
BuildResponseStatusOnly ==
    Response(Success(Unwrap(status)),
             Lossy(buf["out"]), Lossy(buf["err"]),
             Code(Unwrap(status)), timed_out)

\* the response with ok taken from timed_out alone
BuildResponseOkInTime ==
    Response(~timed_out,
             Lossy(buf["out"]), Lossy(buf["err"]),
             Code(Unwrap(status)), timed_out)

\* the response with no exit code after a timeout
BuildResponseNoCodeOnTimeout ==
    Response(~timed_out /\ Success(Unwrap(status)),
             Lossy(buf["out"]), Lossy(buf["err"]),
             IF timed_out THEN None ELSE Code(Unwrap(status)), timed_out)

\* the response execute_with_candidate builds
BuildResponse ==
    Response(~timed_out /\ Success(Unwrap(status)),
             Lossy(buf["out"]), Lossy(buf["err"]),
             Code(Unwrap(status)), timed_out)

\* the last join taking what the stderr drain has read so far
JoinStderrNoWait ==
    /\ pc = "join_stderr"
    /\ IF drain["err"] \in {"ok", "reading"}
       THEN /\ RunOnOk(BuildResponse)
            /\ attempts' = SetEnd(attempts, "outcome")
            /\ UNCHANGED <<engineVars, otherVars>>
       ELSE EngineErr(drain["err"])

\* stderr_handle.await ... ?: the stderr drain has ended; on Ok the response is
\* built and run_python_script returns it
JoinStderr ==
    /\ pc = "join_stderr"
    /\ drain["err"] /= "reading"
    /\ IF drain["err"] = "ok"
       THEN /\ RunOnOk(BuildResponse)
            /\ attempts' = SetEnd(attempts, "outcome")
            /\ UNCHANGED <<engineVars, otherVars>>
       ELSE EngineErr(drain["err"])

Next ==
    \/ RunStart
    \/ Spawn
    \/ RunExhausted
    \/ \E s \in Streams, b \in Bytes : ChildWrite(s, b)
    \/ ChildUnblock
    \/ \E st \in OwnExits(target_os) : ChildExit(st)
    \/ \E s \in Streams : DrainRead(s)
    \/ \E s \in Streams : DrainEof(s)
    \/ \E s \in Streams, k \in IoKinds : DrainFail(s, k)
    \/ WaitDone
    \/ \E k \in IoKinds : WaitFail(k)
    \/ TimeoutElapsed
    \/ Kill
    \/ Reap
    \/ \E k \in IoKinds : ReapFail(k)
    \/ JoinStdout
    \/ JoinStderr

Spec == Init /\ [][Next]_vars

\* the preflight alone, over every short path
SpecPaths == InitPaths /\ [][RunStart]_vars

\* the loop of run over the candidates of every override, no spawn succeeding
NextResolve == RunStart \/ Spawn \/ RunExhausted
SpecResolve == InitResolve /\ [][NextResolve]_vars

\* run over the requests of a timeout
SpecTimeout == InitTimeout /\ [][Next]_vars

(***************************************************************************)
(* validate_python_script.                                                 *)
(***************************************************************************)
\* struct ValidatePythonScriptResponse
ValidateResponse(valid, message, resolved_python) ==
    [valid |-> valid, message |-> message, resolved_python |-> resolved_python]

ScriptAndInterpreterValid == Msg("script and interpreter are valid", <<>>, None)
InterpreterNotAvailable == Msg("python interpreter is not available", <<>>, None)

\* whether the --version query of a spawned program ends with success
VersionQuerySucceeds(h) == h = "ok"

\* fn is_candidate_available taking every program that can be spawned
is_candidate_available_spawned(candidate) == Spawns(host[candidate.program])

\* fn is_candidate_available: command.status() is Ok(status) with
\* status.success(); a spawn that fails is Err(_), false
is_candidate_available(candidate) ==
    /\ Spawns(host[candidate.program])
    /\ VersionQuerySucceeds(host[candidate.program])

\* the candidates validate_python_script goes through
ValidateCandidates == python_candidates(target_os, request.python_path)

validateOnly == <<reqVars, runVars, engineVars, attempts, heirs, stdin_read>>

\* validate_python_script up to the for loop, failing the call on a bad path
ValidateStartFailing ==
    /\ vpc = "start"
    /\ LET checked == validate_script_path(request.script_path, fs_kind) IN
       IF IsErr(checked)
       THEN /\ vresult' = Some(Err(checked[2]))
            /\ vpc' = "done"
            /\ UNCHANGED vidx
       ELSE /\ vidx' = 1
            /\ vpc' = "probe"
            /\ UNCHANGED vresult
    /\ UNCHANGED <<probes, validateOnly>>

\* validate_python_script up to the for loop
ValidateStart ==
    /\ vpc = "start"
    /\ LET checked == validate_script_path(request.script_path, fs_kind) IN
       IF IsErr(checked)
       THEN /\ vresult' = Some(Ok(ValidateResponse(FALSE, Some(checked[2]), None)))
            /\ vpc' = "done"
            /\ UNCHANGED vidx
       ELSE /\ vidx' = 1
            /\ vpc' = "probe"
            /\ UNCHANGED vresult
    /\ UNCHANGED <<probes, validateOnly>>

\* one turn of the loop of validate_python_script
Probe ==
    /\ vpc = "probe"
    /\ vidx <= Len(ValidateCandidates)
    /\ LET candidate == ValidateCandidates[vidx]
           available == is_candidate_available(candidate)
       IN  /\ probes' = Append(probes, [index |-> vidx, available |-> available])
           /\ IF available
              THEN /\ vresult' = Some(Ok(ValidateResponse(TRUE, Some(ScriptAndInterpreterValid),
                                                          Some(candidate.display_name))))
                   /\ vpc' = "done"
                   /\ UNCHANGED vidx
              ELSE /\ vidx' = vidx + 1
                   /\ UNCHANGED <<vpc, vresult>>
    /\ UNCHANGED validateOnly

\* the end of validate_python_script: no candidate was available
ValidateExhausted ==
    /\ vpc = "probe"
    /\ vidx > Len(ValidateCandidates)
    /\ vresult' = Some(Ok(ValidateResponse(FALSE, Some(InterpreterNotAvailable), None)))
    /\ vpc' = "done"
    /\ UNCHANGED <<vidx, probes, validateOnly>>

NextValidate == ValidateStart \/ Probe \/ ValidateExhausted

\* the inputs of validate: every kind of path and of host
InitValidate == InitWith(TargetOs, ScriptPaths, FsKinds, PythonPaths, {None}, ProbeHostKinds)

\* validate_python_script alone
SpecValidate == InitValidate /\ [][NextValidate]_vars

\* the inputs of the engine: one script that passes the preflight
InitEngine == InitWith({"other"}, {ScriptPy}, {"file"}, PythonPaths, {None}, HostKinds)

ChildStep ==
    \/ \E s \in Streams, b \in Bytes : ChildWrite(s, b)
    \/ ChildUnblock
    \/ \E st \in OwnExits(target_os) : ChildExit(st)

DrainStep(s) == DrainRead(s) \/ DrainEof(s)

RunStep ==
    RunStart \/ Spawn \/ RunExhausted \/ WaitDone \/ Kill \/ Reap \/ JoinStdout \/ JoinStderr

\* The script, the two drain tasks and the task of run each go on when they
\* can (the os schedules the child, tokio the tasks).  Nothing makes the timer
\* fire or an io call fail: the timeout may be as long as one likes.
FairSpec ==
    /\ InitEngine
    /\ [][Next]_vars
    /\ WF_vars(ChildStep)
    /\ \A s \in Streams : WF_vars(DrainStep(s))
    /\ WF_vars(RunStep)

\* the inputs of a run with one candidate, the explicit interpreter
InitCustom == InitWith({"other"}, {ScriptPy}, {"file"}, {CustomPython}, {None}, HostKinds)

NextStdin == Next \/ ChildReadStdin \/ StdinArrives

\* run with a script that reads its standard input
SpecStdin == InitCustom /\ [][NextStdin]_vars

NextHeirs == Next \/ ChildFork \/ HeirExit

\* Run with a script that may start processes of its own.  The tasks of run
\* and the drains go on when they can, and here the timer fires when the wait
\* lasts: the timeout is finite.  Nothing makes the script or a process it
\* started take a step.
FairSpecHeirs ==
    /\ InitCustom
    /\ [][NextHeirs]_vars
    /\ WF_vars(RunStep \/ TimeoutElapsed)
    /\ \A s \in Streams : WF_vars(DrainStep(s))

\* the inputs of validate followed by run: one request on windows, every kind
\* of host
InitBoth == InitWith({"windows"}, {ScriptPy}, {"file"}, PythonPaths, {None}, ProbeHostKinds)

\* run_python_script called once validate_python_script has returned, with
\* the same request on the same host
RunAfterValidate == vpc = "done" /\ Next

NextBoth == NextValidate \/ RunAfterValidate

\* validate, then run
SpecBoth == InitBoth /\ [][NextBoth]_vars

(***************************************************************************)
(* The claims.                                                             *)
(***************************************************************************)
Returned == result /= None
HasOutcome == Returned /\ IsOk(Unwrap(result))
Outcome == Unwrap(result)[2]
Failure == Unwrap(result)[2]

\* C1: in every outcome run returns, ok is true exactly when timedOut is false
\* and the exit status the child ended with is success; no outcome has ok and
\* timedOut both true.
C1_OkIffInTimeAndSuccess ==
    HasOutcome =>
        /\ Outcome.ok <=> (~Outcome.timed_out /\ child_status = Some(ExitStatus(Some(0), None)))
        /\ ~(Outcome.ok /\ Outcome.timed_out)

\* C1 witness: an outcome of a child that exited with success just after the
\* timeout elapsed: timedOut is true, so ok is false.
C1_Witness ==
    /\ HasOutcome
    /\ Outcome.timed_out
    /\ child_status = Some(ExitStatus(Some(0), None))
    /\ ~Outcome.ok

\* the position in the attempts of the first candidate whose spawn succeeded,
\* 0 when there is none
FirstSpawned ==
    IF \E k \in 1..Len(attempts) : attempts[k].spawn = "ok"
    THEN CHOOSE k \in 1..Len(attempts) :
            /\ attempts[k].spawn = "ok"
            /\ \A j \in 1..(k - 1) : attempts[j].spawn /= "ok"
    ELSE 0

C3_OtherSpawnErrorIsFatal ==
    \A k \in 1..Len(attempts) :
        /\ attempts[k].spawn \notin {"ok", "NotFound"} =>
              /\ k = Len(attempts)
              /\ pc = "done"
              /\ result = Some(Err(FailedToExecute(candidates[k], attempts[k].spawn)))
        /\ k < Len(attempts) /\ attempts[k].spawn /= "ok" => attempts[k].spawn = "NotFound"

\* C3 witness: the first candidate was not found, the spawn of the second was
\* denied.
C3_Witness ==
    /\ Len(attempts) = 2
    /\ attempts[1].spawn = "NotFound"
    /\ attempts[2].spawn = "PermissionDenied"
    /\ pc = "done"

\* C4: when every candidate failed to spawn with NotFound, run fails with the
\* diagnostic that names the last candidate of the list; the generic message is
\* returned only when no diagnostic was recorded.
C4_LastNotFoundReported ==
    /\ ( /\ pc = "done"
         /\ Len(attempts) = Len(candidates)
         /\ Len(attempts) > 0
         /\ \A k \in 1..Len(attempts) : attempts[k].spawn = "NotFound" ) =>
            result = Some(Err(InterpreterNotFound(candidates[Len(candidates)])))
    /\ result = Some(Err(NoInterpreter)) => last_error = None

\* C4 witness: two candidates, neither found.
C4_Witness ==
    /\ pc = "done"
    /\ Len(attempts) = 2
    /\ \A k \in 1..2 : attempts[k].spawn = "NotFound"

\* C5: once the timeout has elapsed on a child that had not exited, timed_out
\* is set, the child is killed, and run goes on only when the child has been
\* reaped: the outcome has timedOut true and ok false, and the child ended by
\* the kill or, at the latest, by itself between the timeout and the kill.  A
\* child that exited before the timeout elapsed is never killed, and its
\* outcome has timedOut false.
C5_TimeoutKillsAndReaps ==
    /\ pc \in {"kill", "reap"} => timed_out
    /\ pc = "reap" => child = "exited" /\ ending \in {"killed", "after"}
    /\ timed_out /\ pc \in {"join_stdout", "join_stderr", "done"} =>
          /\ child = "reaped"
          /\ ending \in {"killed", "after"}
    /\ HasOutcome /\ timed_out => Outcome.timed_out /\ ~Outcome.ok
    /\ HasOutcome /\ Outcome.timed_out => timed_out
    /\ ending = "before" =>
          /\ ~timed_out
          /\ pc \notin {"kill", "reap"}
          /\ child_status \in {Some(st) : st \in OwnExits(target_os)}
          /\ HasOutcome => ~Outcome.timed_out

\* C5 witness: an outcome of a child that was running when the timeout elapsed
\* and was ended by the kill.
C5_Witness ==
    /\ HasOutcome
    /\ Outcome.timed_out
    /\ ending = "killed"
    /\ child = "reaped"

\* C6: under FairSpec, where the timer need never fire, a child that is
\* running, and so writes at most MaxWrites bytes (more than a pipe holds) to
\* the two streams in any order and then exits, is never blocked for ever: it
\* stops running and run returns.
C6_NoPipeDeadlock == (child = "running") ~> (pc = "done")

\* C6 witness: the child is blocked in a write to the full stderr pipe while
\* run waits for it and the stdout drain has nothing to read.
C6_Witness ==
    /\ pc = "wait"
    /\ blocked /= None
    /\ Unwrap(blocked)[1] = "err"
    /\ Len(pipe["err"]) = PipeCap
    /\ pipe["out"] = <<>>
    /\ drain["out"] = "reading"

\* C7 as stated: in a timed-out outcome stdout and stderr are exactly the bytes
\* the child wrote to each pipe.
C7_ExactBytes ==
    HasOutcome /\ Outcome.timed_out =>
        /\ Outcome.stdout = wrote["out"]
        /\ Outcome.stderr = wrote["err"]

\* C7 amended: in a timed-out outcome stdout and stderr are the lossy UTF-8
\* decoding of exactly the bytes the child put into each pipe before it ended,
\* in order: none is lost, and the byte of a write the kill interrupted is not
\* among them.
C7_PartialOutputKept ==
    HasOutcome /\ Outcome.timed_out =>
        /\ Outcome.stdout = Lossy(wrote["out"])
        /\ Outcome.stderr = Lossy(wrote["err"])
        /\ pipe = NoBytes
        /\ Len(wrote["out"]) + Len(wrote["err"]) <= nwrites

\* C7 witness: a timed-out outcome of a killed child that had written to
\* stdout, and was killed in the middle of a further write.
C7_Witness ==
    /\ HasOutcome
    /\ Outcome.timed_out
    /\ ending = "killed"
    /\ Len(Outcome.stdout) > 0
    /\ Len(wrote["out"]) + Len(wrote["err"]) < nwrites

\* C8: when the preflight fails, run is over with the message of the preflight
\* as soon as it has started: no candidate is resolved, none is tried, no child
\* exists.
C8_PreflightFailureStopsRun ==
    pc /= "start" /\ IsErr(validate_script_path(request.script_path, fs_kind)) =>
        /\ pc = "done"
        /\ result = Some(Err(validate_script_path(request.script_path, fs_kind)[2]))
        /\ candidates = <<>>
        /\ attempts = <<>>
        /\ timeout = None
        /\ EngineIdle

\* C8 witness: run ended on a script that is no .py file.
C8_Witness ==
    /\ pc = "done"
    /\ result = Some(Err(WrongExtension))
    /\ attempts = <<>>

Blank(p) == \A i \in 1..Len(p) : p[i] = " "
HasPyExtension(p) == Extension(p) = Some(<<"p", "y">>)

\* C9: the preflight reports the first failing check of EmptyPath, NotFound,
\* NotAFile, WrongExtension: a blank path gives EmptyPath; a path that is not
\* blank gives NotFound when nothing is there, whatever its extension, NotAFile
\* when a directory (or another non-file) is there, WrongExtension when a
\* regular file is there whose extension is not exactly py, and passes when a
\* regular .py file is there; so every path whose extension is not py fails.
C9_PreflightOrder ==
    pc /= "start" =>
        LET p == request.script_path IN
        /\ Blank(p) => result = Some(Err(EmptyPath))
        /\ ~Blank(p) /\ fs_kind = "absent" => result = Some(Err(NotFound(p)))
        /\ ~Blank(p) /\ fs_kind \in {"dir", "other"} => result = Some(Err(NotAFile(p)))
        /\ ~Blank(p) /\ fs_kind = "file" /\ ~HasPyExtension(p) =>
              result = Some(Err(WrongExtension))
        /\ ~Blank(p) /\ fs_kind = "file" /\ HasPyExtension(p) =>
              result = None /\ pc = "spawn"
        /\ ~HasPyExtension(p) => Returned /\ IsErr(Unwrap(result))
        /\ p \in {<<".", "p", "y">>, <<"p", ".", "P", "y">>, <<"p", "y">>, <<"p", ".", "p">>}
              => Returned /\ IsErr(Unwrap(result))

\* C9 witness: the preflight ran on a path that does not exist and has the
\* extension py.
C9_Witness ==
    /\ pc /= "start"
    /\ request.script_path = ScriptPy
    /\ fs_kind = "absent"
    /\ result = Some(Err(NotFound(ScriptPy)))

\* C10: the timeout run uses is the requested one clamped into [1000, 120000],
\* 10000 when none is requested: 0 gives 1000, 999999 gives 120000, a value in
\* the range is used as it is.
C10_TimeoutClamped ==
    timeout /= None =>
        LET t == Unwrap(timeout)
            r == request.timeout_ms
        IN  /\ t >= 1000 /\ t <= 120000
            /\ r = None => t = 10000
            /\ r = Some(0) => t = 1000
            /\ r = Some(999999) => t = 120000
            /\ r /= None /\ Unwrap(r) >= 1000 /\ Unwrap(r) <= 120000 => t = Unwrap(r)
            /\ r /= None /\ Unwrap(r) < 1000 => t = 1000
            /\ r /= None /\ Unwrap(r) > 120000 => t = 120000

\* C10 witness: a child runs under the timeout of a request of 999999 ms.
C10_Witness ==
    /\ pc = "wait"
    /\ request.timeout_ms = Some(999999)
    /\ timeout = Some(120000)

ValidateReturned == vresult /= None
ValidateOutcome == Unwrap(vresult)[2]
PreflightFails == IsErr(validate_script_path(request.script_path, fs_kind))

\* C12: what validate returns is never a failure of the call but an outcome;
\* when the preflight fails, validate is over at once with valid false, the
\* message of the preflight and no resolved interpreter, and no candidate was
\* probed.
C12_ValidateReportsInBand ==
    /\ ValidateReturned => IsOk(Unwrap(vresult))
    /\ vpc /= "start" /\ PreflightFails =>
          /\ vpc = "done"
          /\ vresult = Some(Ok(ValidateResponse(FALSE,
                 Some(validate_script_path(request.script_path, fs_kind)[2]), None)))
          /\ probes = <<>>
          /\ vidx = 0

\* C12 witness: validate returned on a path that is a directory.
C12_Witness ==
    /\ vpc = "done"
    /\ fs_kind = "dir"
    /\ ValidateOutcome.valid = FALSE
    /\ ValidateOutcome.message = Some(NotAFile(request.script_path))
    /\ probes = <<>>

\* the positions of the candidates that can be spawned and answer --version
\* with success
AvailablePositions ==
    {i \in 1..Len(ValidateCandidates) : host[ValidateCandidates[i].program] = "ok"}

\* C13: after a preflight that passed, the candidates are probed in list
\* order; validate returns valid true with the display name of the first one
\* whose probe succeeds and probes none after it; when no probe succeeds it
\* returns valid false with the fixed message and no resolved interpreter; so
\* resolved_python is there exactly when valid is true.
C13_FirstAvailableNamed ==
    /\ \A k \in 1..Len(probes) : probes[k].index = k
    /\ ValidateReturned /\ ~PreflightFails =>
          IF AvailablePositions /= {}
          THEN LET first == CHOOSE i \in AvailablePositions :
                                \A j \in AvailablePositions : i <= j
               IN  /\ ValidateOutcome = ValidateResponse(TRUE, Some(ScriptAndInterpreterValid),
                                            Some(ValidateCandidates[first].display_name))
                   /\ Len(probes) = first
          ELSE /\ ValidateOutcome = ValidateResponse(FALSE, Some(InterpreterNotAvailable), None)
               /\ Len(probes) = Len(ValidateCandidates)
    /\ ValidateReturned => (ValidateOutcome.resolved_python /= None <=> ValidateOutcome.valid)

\* C13 witness: the first candidate can be spawned but fails its version
\* query, the second is available and is the one named.
C13_Witness ==
    /\ vpc = "done"
    /\ Len(probes) = 2
    /\ host[ValidateCandidates[1].program] = "noversion"
    /\ ValidateOutcome.valid
    /\ ValidateOutcome.resolved_python = Some(ValidateCandidates[2].display_name)

\* C14: the standard input of the child is not connected: a script that
\* reads it sees its end; it gets no data from the standard input of the host
\* application and does not wait on it.
C14_StdinNotConnected ==
    /\ stdin_read \in {"none", "eof"}
    /\ blocked /= Some(<<"in", 0>>)

\* t is s without the white space at its two ends
IsTrimOf(t, s) ==
    /\ t /= <<>>
    /\ ~IsWhite(t[1])
    /\ ~IsWhite(t[Len(t)])
    /\ \E a \in 0..Len(s) :
          /\ a + Len(t) <= Len(s)
          /\ SubSeq(s, a + 1, a + Len(t)) = t
          /\ \A i \in 1..Len(s) : (i <= a \/ i > a + Len(t)) => IsWhite(s[i])

BlankOverride ==
    \/ request.python_path = None
    \/ \A i \in 1..Len(Unwrap(request.python_path)) : IsWhite(Unwrap(request.python_path)[i])

\* C15: for an override that is not blank the resolver returns one candidate,
\* whose program and display name are the override without the white space at
\* its ends and whose pre_args is empty, and run tries no other interpreter;
\* for an absent, empty or all-white override it returns the default list of
\* the platform, which is not empty.
C15_ExplicitOverrideOnly ==
    LET cands == python_candidates(target_os, request.python_path) IN
    /\ IF BlankOverride
       THEN /\ cands = IF target_os = "windows" THEN WindowsCandidates ELSE OtherCandidates
            /\ Len(cands) > 0
       ELSE /\ Len(cands) = 1
            /\ IsTrimOf(cands[1].program, Unwrap(request.python_path))
            /\ cands[1].display_name = cands[1].program
            /\ cands[1].pre_args = <<>>
    /\ pc /= "start" => candidates = cands
    /\ ~BlankOverride => /\ Len(attempts) <= 1
                         /\ \A k \in 1..Len(attempts) : attempts[k].index = 1

\* C15 witness: run ended after trying x, the override " x " trimmed, alone.
C15_Witness ==
    /\ pc = "done"
    /\ request.python_path = CustomPython
    /\ candidates = << PythonCandidate(<<"x">>, <<>>, <<"x">>) >>
    /\ Len(attempts) = 1
    /\ host[<<"x">>] = "absent"

\* C16: when run has returned an outcome, the exit status of the child has
\* been determined and the child reaped, and both drains have ended at the end
\* of their stream: neither is still reading and no byte is left in a pipe.
C16_OutcomeAfterAllThree ==
    HasOutcome =>
        /\ child = "reaped"
        /\ status /= None
        /\ status = child_status
        /\ \A s \in Streams : drain[s] = "ok" /\ pipe[s] = <<>>

\* C16 witness: an outcome after a kill, with bytes drained from both streams.
C16_Witness ==
    /\ HasOutcome
    /\ ending = "killed"
    /\ buf["out"] /= <<>>
    /\ buf["err"] /= <<>>
    /\ \A s \in Streams : drain[s] = "ok"

\* C17: every run returns in the end, an outcome or a failure of the call,
\* whatever the child does.
C17_EveryRunReturns == <>(pc = "done")

\* C18: in an outcome with timed_out the exit code is absent or the one the
\* kill produces, and it is never a code the script exited with by itself.
C18_NeverOwnExitCode ==
    HasOutcome /\ Outcome.timed_out =>
        /\ Outcome.exit_code \in {None, KilledStatus(target_os).code}
        /\ ~(ending = "after" /\ Outcome.exit_code /= None)

\* C18 as it holds: in an outcome with timed_out, ok is false and the exit code
\* is the one of the status the child ended with: the status of the kill when
\* the kill ended the child, and the script's own status, its exit code
\* included, when the script ended by itself after the timer and before the
\* kill.
C18_ExitCodeAfterKill ==
    HasOutcome /\ Outcome.timed_out =>
        /\ ~Outcome.ok
        /\ ending \in {"killed", "after"}
        /\ Outcome.exit_code = Unwrap(child_status).code
        /\ ending = "killed" => child_status = Some(KilledStatus(target_os))
        /\ ending = "after" => Unwrap(child_status) \in OwnExits(target_os)

\* C18 witness: the script exited with code 0 between the timer and the kill;
\* the outcome has timed_out and exit code 0.
C18_Witness ==
    /\ HasOutcome
    /\ Outcome.timed_out
    /\ ending = "after"
    /\ Outcome.exit_code = Some(0)

\* C19: within one run the script is started at most once: at most one
\* candidate's spawn succeeds, whatever fails after it.
C19_ScriptStartedAtMostOnce ==
    Cardinality({k \in 1..Len(attempts) : attempts[k].spawn = "ok"}) <= 1

\* the display names of the candidates run spawned with success
SpawnedNames ==
    {candidates[attempts[k].index].display_name :
        k \in {j \in 1..Len(attempts) : attempts[j].spawn = "ok"}}

\* no step after a spawn failed with an i/o error
NoFailureAfterSpawn == \A k \in 1..Len(attempts) : attempts[k].end \notin IoKinds

\* C20: validate and run agree, for the same request on the same host.  When
\* validate returned valid with the interpreter X, run executes the script
\* with the candidate X and no other; when validate returned that no
\* interpreter is available, run fails and executes nothing.  Stated for the
\* runs in which no wait and no read failed, so that it does not rest on C19.
C20_ValidateAndRunAgree ==
    vpc = "done" /\ pc = "done" /\ NoFailureAfterSpawn =>
        /\ ValidateOutcome.valid =>
              SpawnedNames = {Unwrap(ValidateOutcome.resolved_python)}
        /\ ValidateOutcome.message = Some(InterpreterNotAvailable) =>
              /\ SpawnedNames = {}
              /\ ~HasOutcome

====
